---- MODULE Spec2Model ----
(***************************************************************************)
(* Model of the bounded MPMC ring buffer of src/src/rb.rs (RingBuffer,     *)
(* Sender, Receiver) and of the way src/src/main.rs drives it.             *)
(*                                                                         *)
(* Spec     : the data path.  Producer threads call send, consumer threads *)
(*            call recv and the owner calls empty, every atomic access of  *)
(*            the code being one step.                                     *)
(* SpecRetry: Spec with the history of loop iterations (spun) recorded.    *)
(* SpecLife : the handle registry (clone / drop of Sender and Receiver,    *)
(*            drop of the RingBuffer).                                     *)
(*                                                                         *)
(* SpecWrap : Spec started a few positions before the counters wrap.       *)
(* SpecDriver: the threads of main.rs, each looping until it has counted   *)
(*            ELEMENTS successes, under fair scheduling.                    *)
(*                                                                         *)
(* Atomic accesses are interleaved sequentially consistently.  The u32     *)
(* counters are Width bits wide here; under Spec the positions stay far    *)
(* below 2^(Width - 1), so no arithmetic of the code overflows there.      *)
(***************************************************************************)
EXTENDS Integers, Sequences, FiniteSets, TLC

\* ---------------------------------------------------------------- bounds
MaxThreads == 3        \* worker threads at most (Spec); one fewer of each kind at most (SpecDriver)
MaxCap == 1            \* requested capacities 1..MaxCap
MaxSends == 3          \* send calls that may claim a position, in one behaviour
MaxHandles == 3        \* handles of one kind ever created (SpecLife)
Width == 5             \* bits of a cursor and of a slot sequence (u32 in rb.rs, scaled down)
MaxTotal == 4          \* SpecDriver: successes the sender threads have to count, all together
WrapLead == 2          \* SpecWrap starts this many positions before the counters wrap

\* T::default() of the payload type (u64 in main.rs)
Default == 0

Main == 0
ProdIds == 1..(MaxThreads - 1)
ConsIds == {100 + i : i \in 1..(MaxThreads - 1)}
Threads == ProdIds \cup ConsIds \cup {Main}

VARIABLES
  n,          \* RingBuffer.n : the index mask, slot count - 1
  req,        \* the argument of RingBuffer::new
  v,          \* RingBuffer.v : slot index -> [pos |-> sequence, data |-> payload]
  enq_pos,    \* RingBuffer.enq_pos
  deq_pos,    \* RingBuffer.deq_pos
  users,      \* RingBuffer.users : [senders, receivers]
  prods,      \* threads that own a Sender
  cons,       \* threads that own a Receiver
  pc,         \* thread -> where it stands in send / recv / empty
  pos,        \* thread -> its local `pos`
  val,        \* thread -> its local `d`
  wlog,       \* history: <<[pos, val]>> of the send claims, in CAS order
  rclaim,     \* history: positions of the recv claims, in CAS order
  rlog,       \* history: <<[pos, val]>> of the recv results, in return order
  sendDone,   \* history: positions whose send has returned true
  spun,       \* history: thread -> it went round its retry loop and no operation has advanced since
  track,      \* the histories that are kept: "claims" (wlog, rclaim, rlog, sendDone), "retries" (spun)
  succ,       \* main.rs `succ`: thread -> successes counted so far, for the threads that run its loops
  elements,   \* main.rs ELEMENTS: the successes after which such a thread leaves its loop
  rbState,    \* the RingBuffer box: "live", "dropping", "dropped", "panicked"
  sHandles,   \* live Sender handles
  rHandles,   \* live Receiver handles
  made,       \* history: handles created so far, [s, r]
  fatal       \* an assert! of a handle's clone or drop has fired

shared == <<n, v, enq_pos, deq_pos, users>>
locals == <<pc, pos, val>>
hist == <<wlog, rclaim, rlog, sendDone, spun, track>>
life == <<rbState, sHandles, rHandles, made, fatal>>
vars == <<n, req, v, enq_pos, deq_pos, users, prods, cons, pc, pos, val,
          wlog, rclaim, rlog, sendDone, spun, track, succ, elements,
          rbState, sHandles, rHandles, made, fatal>>

\* ------------------------------------------------------------ arithmetic
RECURSIVE Pow2From(_, _)
Pow2From(p, x) == IF p >= x THEN p ELSE Pow2From(2 * p, x)

\* usize::next_power_of_two
NextPowerOfTwo(x) == Pow2From(1, x)

\* number of slots
N == n + 1

\* pos as usize & *self.n
RECURSIVE BitAnd(_, _)
BitAnd(a, b) ==
  IF a = 0 \/ b = 0 THEN 0
  ELSE (a % 2) * (b % 2) + 2 * BitAnd(a \div 2, b \div 2)

Idx(p) == BitAnd(p, n)

\* the counters are Width bits wide
Modulus == 2^Width
Half == 2^(Width - 1)

\* a u32 result kept to its width (what `+` yields where overflow is not checked)
WrapU32(x) == x % Modulus

\* x as i32
AsI32(x) == IF x >= Half THEN x - Modulus ELSE x

\* an i32 result kept to its width
WrapI32(x) == ((x + Half) % Modulus) - Half

\* a + k on u32 leaves the width; a as i32 - b as i32 leaves the width
AddOverflows(a, k) == a + k >= Modulus
SubOverflows(a, b) == AsI32(a) - AsI32(b) < 0 - Half \/ AsI32(a) - AsI32(b) >= Half

\* seq as i32 - pos as i32
Diff(seq, p) == WrapI32(AsI32(seq) - AsI32(p))

\* ----------------------------------------------------------- construction
\* mutant of CellNew: every cell starts with sequence 0
CellNewZero(i) == [pos |-> 0, data |-> Default]

\* Cell::new(i)
CellNew(i) == [pos |-> i, data |-> Default]

\* mutant of NewMask: the slot count is stored, not the mask
NewMaskSlots(c) == NextPowerOfTwo(c + 1)

\* RingBuffer::new(c): the mask, the cells, the cursors and the registry
NewMask(c) == NextPowerOfTwo(c + 1) - 1

NewCells(c) == [i \in 0..NewMask(c) |-> CellNew(i)]

\* Users::new(1, 1)
UsersNew == [senders |-> 1, receivers |-> 1]

\* RingBuffer::capacity
Capacity == n

InitBuffer(c) ==
  /\ c > 0
  /\ req = c
  /\ n = NewMask(c)
  /\ v = NewCells(c)
  /\ enq_pos = 0
  /\ deq_pos = 0

InitHist ==
  /\ wlog = <<>>
  /\ rclaim = <<>>
  /\ rlog = <<>>
  /\ sendDone = {}
  /\ spun = [t \in Threads |-> FALSE]

InitLocals ==
  /\ pc = [t \in Threads |-> "idle"]
  /\ pos = [t \in Threads |-> 0]
  /\ val = [t \in Threads |-> Default]

\* main.rs: new, then one Sender clone per producer thread and one Receiver
\* clone per consumer thread, each moved into its thread.  main.rs spawns as
\* many producers as consumers; here any split of the threads is taken.
InitWorkers(np, nc) ==
  /\ prods = 1..np
  /\ cons = {100 + i : i \in 1..nc}
  /\ users = [senders |-> UsersNew.senders + np,
              receivers |-> UsersNew.receivers + nc]
  /\ sHandles = 1 + np
  /\ rHandles = 1 + nc
  /\ made = [s |-> 1 + np, r |-> 1 + nc]
  /\ rbState = "live"
  /\ fatal = FALSE
  /\ InitLocals
  /\ InitHist

InitThreads ==
  /\ \E c \in 1..MaxCap : InitBuffer(c)
  /\ \E np \in 1..(MaxThreads - 1), nc \in 1..(MaxThreads - 1) :
       /\ np + nc <= MaxThreads
       /\ InitWorkers(np, nc)

\* no thread runs the loops of main.rs: the calls come in any number and order
NoDriver ==
  /\ succ = << >>
  /\ elements = 0

Init == InitThreads /\ NoDriver /\ track = {"claims"}

\* ------------------------------------------------------------------ send
InOp(t) == pc[t] # "idle"

\* a step that advances an operation (a cursor CAS that succeeds, a payload
\* access, a sequence store): no thread has gone round in vain since
Progress == [u \in Threads |-> FALSE]

\* thread t goes round its retry loop
Retry(t) == IF "retries" \in track THEN [spun EXCEPT ![t] = TRUE] ELSE spun

\* the history h with the event e, where the claims are recorded
Log(h, e) == IF "claims" \in track THEN Append(h, e) ELSE h

\* main.rs: succ += 1 after a send that returned true or a recv that returned Ok
Counted(t) == IF t \in DOMAIN succ THEN [succ EXCEPT ![t] = @ + 1] ELSE succ

Return(t) ==
  /\ pc' = [pc EXCEPT ![t] = "idle"]
  /\ pos' = [pos EXCEPT ![t] = 0]
  /\ val' = [val EXCEPT ![t] = Default]

\* `+` and `-` are plain operators in rb.rs: on overflow they panic in a build
\* with overflow checks (cargo's dev profile) and wrap in one without (release).
\* The thread that panics stops where it is.
Panic(t) ==
  /\ pc' = [pc EXCEPT ![t] = "panic"]
  /\ UNCHANGED <<pos, val>>

\* the send calls in flight that have not claimed a position yet
PreClaim(S) ==
  {u \in S : pc[u] \in {"s_check", "s_cas", "s_reload"}}

\* The payloads are kept distinct, so that a received value names the send it
\* came from: a call passes the least value no accepted or pending send holds.
FreshVal ==
  LET used == {wlog[i].val : i \in 1..Len(wlog)} \cup {val[u] : u \in PreClaim(prods)}
  IN CHOOSE d \in 1..(MaxSends + 1) : d \notin used /\ \A e \in 1..(d - 1) : e \in used

\* let mut pos = self.enq_pos.load(Relaxed)
SendBegin(t, d) ==
  /\ t \in prods
  /\ pc[t] = "idle"
  /\ Len(wlog) + Cardinality(PreClaim(prods)) < MaxSends
  /\ d = FreshVal
  /\ pc' = [pc EXCEPT ![t] = "s_check"]
  /\ pos' = [pos EXCEPT ![t] = enq_pos]
  /\ val' = [val EXCEPT ![t] = d]
  /\ spun' = [spun EXCEPT ![t] = FALSE]
  /\ UNCHANGED <<shared, req, succ, elements, prods, cons, life>>
  /\ UNCHANGED <<wlog, rclaim, rlog, sendDone, track>>

\* mutant of SendBranchOf: a slot that is still held is claimed all the same
SendBranchOfNoFull(seq, p) ==
  IF Diff(seq, p) <= 0 THEN "cas"
  ELSE "reload"

\* the branch send takes on `diff = seq as i32 - pos as i32`
SendBranchOf(seq, p) ==
  IF Diff(seq, p) = 0 THEN "cas"
  ELSE IF Diff(seq, p) < 0 THEN "full"
  ELSE "reload"

SendBranch(t) == SendBranchOf(v[Idx(pos[t])].pos, pos[t])

\* the subtraction of diff, or `let new = pos + 1` of the diff == 0 branch, overflows
SendOverflows(t) ==
  \/ SubOverflows(v[Idx(pos[t])].pos, pos[t])
  \/ Diff(v[Idx(pos[t])].pos, pos[t]) = 0 /\ AddOverflows(pos[t], 1)

\* mutant of SendCheck: the payload is stored before the slot is known to be free
SendCheckFullWrite(t) ==
  /\ pc[t] = "s_check"
  /\ CASE SendBranch(t) = "cas" ->
            /\ pc' = [pc EXCEPT ![t] = "s_cas"]
            /\ UNCHANGED <<pos, val, spun, v>>
       [] SendBranch(t) = "full" ->
            /\ v' = [v EXCEPT ![Idx(pos[t])].data = val[t]]
            /\ Return(t)
            /\ spun' = [spun EXCEPT ![t] = FALSE]
       [] OTHER ->
            /\ pc' = [pc EXCEPT ![t] = "s_reload"]
            /\ UNCHANGED <<pos, val, spun, v>>
  /\ UNCHANGED <<n, enq_pos, deq_pos, users, req, succ, elements, prods, cons, life>>
  /\ UNCHANGED <<wlog, rclaim, rlog, sendDone, track>>

\* let seq = cell.pos.load(Acquire); the branch on diff
SendCheck(t) ==
  /\ pc[t] = "s_check"
  /\ \/ CASE SendBranch(t) = "cas" ->
               /\ pc' = [pc EXCEPT ![t] = "s_cas"]
               /\ UNCHANGED <<pos, val, spun>>
          [] SendBranch(t) = "full" ->
               /\ Return(t)
               /\ spun' = [spun EXCEPT ![t] = FALSE]
          [] OTHER ->
               /\ pc' = [pc EXCEPT ![t] = "s_reload"]
               /\ UNCHANGED <<pos, val, spun>>
     \/ /\ SendOverflows(t)
        /\ Panic(t)
        /\ UNCHANGED spun
  /\ UNCHANGED <<shared, req, succ, elements, prods, cons, life>>
  /\ UNCHANGED <<wlog, rclaim, rlog, sendDone, track>>

\* mutant of SendCasOk: the cursor is stored without being compared
SendCasOkBlind(t) ==
  /\ pc[t] = "s_cas"
  /\ enq_pos' = pos[t] + 1
  /\ pc' = [pc EXCEPT ![t] = "s_write"]
  /\ wlog' = Log(wlog, [pos |-> pos[t], val |-> val[t]])
  /\ spun' = Progress
  /\ UNCHANGED <<n, v, deq_pos, users, req, succ, elements, prods, cons, life, pos, val>>
  /\ UNCHANGED <<rclaim, rlog, sendDone, track>>

\* compare_exchange_weak(pos, new) on enq_pos finds pos: Ok
SendCasOk(t) ==
  /\ pc[t] = "s_cas"
  /\ enq_pos = pos[t]
  /\ enq_pos' = WrapU32(pos[t] + 1)
  /\ pc' = [pc EXCEPT ![t] = "s_write"]
  /\ wlog' = Log(wlog, [pos |-> pos[t], val |-> val[t]])
  /\ spun' = Progress
  /\ UNCHANGED <<n, v, deq_pos, users, req, succ, elements, prods, cons, life, pos, val>>
  /\ UNCHANGED <<rclaim, rlog, sendDone, track>>

\* compare_exchange_weak finds another value: Err(_) => (), and the loop
\* goes round with the same pos
SendCasFail(t) ==
  /\ pc[t] = "s_cas"
  /\ enq_pos # pos[t]
  /\ pc' = [pc EXCEPT ![t] = "s_check"]
  /\ spun' = Retry(t)
  /\ UNCHANGED <<shared, req, succ, elements, prods, cons, life, pos, val>>
  /\ UNCHANGED <<wlog, rclaim, rlog, sendDone, track>>

\* compare_exchange_weak fails although enq_pos = pos (it is the weak form)
SendCasSpurious(t) ==
  /\ pc[t] = "s_cas"
  /\ enq_pos = pos[t]
  /\ pc' = [pc EXCEPT ![t] = "s_check"]
  /\ UNCHANGED <<shared, req, succ, elements, prods, cons, life, pos, val>>
  /\ UNCHANGED hist

\* mutant of SendWrite: the payload is not stored
SendWriteSkip(t) ==
  /\ pc[t] = "s_write"
  /\ pc' = [pc EXCEPT ![t] = "s_publish"]
  /\ spun' = Progress
  /\ UNCHANGED <<shared, req, succ, elements, prods, cons, life, pos, val>>
  /\ UNCHANGED <<wlog, rclaim, rlog, sendDone, track>>

\* cell.data = UnsafeCell::new(d)
SendWrite(t) ==
  /\ pc[t] = "s_write"
  /\ v' = [v EXCEPT ![Idx(pos[t])].data = val[t]]
  /\ pc' = [pc EXCEPT ![t] = "s_publish"]
  /\ spun' = Progress
  /\ UNCHANGED <<n, enq_pos, deq_pos, users, req, succ, elements, prods, cons, life, pos, val>>
  /\ UNCHANGED <<wlog, rclaim, rlog, sendDone, track>>

\* mutant of SendPublish: the sequence stored is pos, not pos + 1
SendPublishStale(t) ==
  /\ pc[t] = "s_publish"
  /\ v' = [v EXCEPT ![Idx(pos[t])].pos = pos[t]]
  /\ sendDone' = (IF "claims" \in track THEN sendDone \cup {pos[t]} ELSE sendDone)
  /\ succ' = Counted(t)
  /\ Return(t)
  /\ spun' = Progress
  /\ UNCHANGED <<n, enq_pos, deq_pos, users, req, elements, prods, cons, life>>
  /\ UNCHANGED <<wlog, rclaim, rlog, track>>

\* cell.pos.store(new, Release); return true
SendPublish(t) ==
  /\ pc[t] = "s_publish"
  /\ v' = [v EXCEPT ![Idx(pos[t])].pos = WrapU32(pos[t] + 1)]
  /\ sendDone' = (IF "claims" \in track THEN sendDone \cup {pos[t]} ELSE sendDone)
  /\ succ' = Counted(t)
  /\ Return(t)
  /\ spun' = Progress
  /\ UNCHANGED <<n, enq_pos, deq_pos, users, req, elements, prods, cons, life>>
  /\ UNCHANGED <<wlog, rclaim, rlog, track>>

\* diff > 0: pos = self.enq_pos.load(Relaxed)
SendReload(t) ==
  /\ pc[t] = "s_reload"
  /\ pos' = [pos EXCEPT ![t] = enq_pos]
  /\ pc' = [pc EXCEPT ![t] = "s_check"]
  /\ spun' = Retry(t)
  /\ UNCHANGED <<shared, req, succ, elements, prods, cons, life, val>>
  /\ UNCHANGED <<wlog, rclaim, rlog, sendDone, track>>

\* ------------------------------------------------------------------ recv
\* let mut pos = self.deq_pos.load(Relaxed)
RecvBegin(t) ==
  /\ t \in cons
  /\ pc[t] = "idle"
  /\ pc' = [pc EXCEPT ![t] = "r_check"]
  /\ pos' = [pos EXCEPT ![t] = deq_pos]
  /\ spun' = [spun EXCEPT ![t] = FALSE]
  /\ UNCHANGED <<shared, req, succ, elements, prods, cons, life, val>>
  /\ UNCHANGED <<wlog, rclaim, rlog, sendDone, track>>

\* mutant of RecvBranchOf: the sequence is compared with pos, not pos + 1
RecvBranchOfPos(seq, p) ==
  IF Diff(seq, p) = 0 THEN "cas"
  ELSE IF Diff(seq, p) < 0 THEN "empty"
  ELSE "reload"

\* the branch recv takes on `diff = seq as i32 - (pos + 1) as i32`
RecvBranchOf(seq, p) ==
  IF Diff(seq, WrapU32(p + 1)) = 0 THEN "cas"
  ELSE IF Diff(seq, WrapU32(p + 1)) < 0 THEN "empty"
  ELSE "reload"

RecvBranch(t) == RecvBranchOf(v[Idx(pos[t])].pos, pos[t])

\* pos + 1, or the subtraction of diff, overflows (in recv and in empty alike)
RecvOverflows(t) ==
  \/ AddOverflows(pos[t], 1)
  \/ SubOverflows(v[Idx(pos[t])].pos, WrapU32(pos[t] + 1))

\* let seq = cell.pos.load(Acquire); the branch on diff
RecvCheck(t) ==
  /\ pc[t] = "r_check"
  /\ \/ CASE RecvBranch(t) = "cas" ->
               /\ pc' = [pc EXCEPT ![t] = "r_cas"]
               /\ UNCHANGED <<pos, val, spun>>
          [] RecvBranch(t) = "empty" ->
               /\ Return(t)
               /\ spun' = [spun EXCEPT ![t] = FALSE]
          [] OTHER ->
               /\ pc' = [pc EXCEPT ![t] = "r_reload"]
               /\ UNCHANGED <<pos, val, spun>>
     \/ /\ RecvOverflows(t)
        /\ Panic(t)
        /\ UNCHANGED spun
  /\ UNCHANGED <<shared, req, succ, elements, prods, cons, life>>
  /\ UNCHANGED <<wlog, rclaim, rlog, sendDone, track>>

\* mutant of RecvCasOk: the cursor is stored without being compared
RecvCasOkBlind(t) ==
  /\ pc[t] = "r_cas"
  /\ deq_pos' = pos[t] + 1
  /\ pc' = [pc EXCEPT ![t] = "r_read"]
  /\ rclaim' = Log(rclaim, pos[t])
  /\ spun' = Progress
  /\ UNCHANGED <<n, v, enq_pos, users, req, succ, elements, prods, cons, life, pos, val>>
  /\ UNCHANGED <<wlog, rlog, sendDone, track>>

\* compare_exchange_weak(pos, new) on deq_pos finds pos: Ok
RecvCasOk(t) ==
  /\ pc[t] = "r_cas"
  /\ deq_pos = pos[t]
  /\ deq_pos' = WrapU32(pos[t] + 1)
  /\ pc' = [pc EXCEPT ![t] = "r_read"]
  /\ rclaim' = Log(rclaim, pos[t])
  /\ spun' = Progress
  /\ UNCHANGED <<n, v, enq_pos, users, req, succ, elements, prods, cons, life, pos, val>>
  /\ UNCHANGED <<wlog, rlog, sendDone, track>>

\* compare_exchange_weak finds another value: Err(_) => (), same pos again
RecvCasFail(t) ==
  /\ pc[t] = "r_cas"
  /\ deq_pos # pos[t]
  /\ pc' = [pc EXCEPT ![t] = "r_check"]
  /\ spun' = Retry(t)
  /\ UNCHANGED <<shared, req, succ, elements, prods, cons, life, pos, val>>
  /\ UNCHANGED <<wlog, rclaim, rlog, sendDone, track>>

\* compare_exchange_weak fails although deq_pos = pos
RecvCasSpurious(t) ==
  /\ pc[t] = "r_cas"
  /\ deq_pos = pos[t]
  /\ pc' = [pc EXCEPT ![t] = "r_check"]
  /\ UNCHANGED <<shared, req, succ, elements, prods, cons, life, pos, val>>
  /\ UNCHANGED hist

\* mutant of RecvRead: the payload is read from the next slot
RecvReadNext(t) ==
  /\ pc[t] = "r_read"
  /\ val' = [val EXCEPT ![t] = v[Idx(pos[t] + 1)].data]
  /\ pc' = [pc EXCEPT ![t] = "r_release"]
  /\ spun' = Progress
  /\ UNCHANGED <<shared, req, succ, elements, prods, cons, life, pos>>
  /\ UNCHANGED <<wlog, rclaim, rlog, sendDone, track>>

\* let d = *cell.data.get_mut()
RecvRead(t) ==
  /\ pc[t] = "r_read"
  /\ val' = [val EXCEPT ![t] = v[Idx(pos[t])].data]
  /\ pc' = [pc EXCEPT ![t] = "r_release"]
  /\ spun' = Progress
  /\ UNCHANGED <<shared, req, succ, elements, prods, cons, life, pos>>
  /\ UNCHANGED <<wlog, rclaim, rlog, sendDone, track>>

\* mutant of RecvRelease: the sequence stored is pos + n, one short
RecvReleaseShort(t) ==
  /\ pc[t] = "r_release"
  /\ v' = [v EXCEPT ![Idx(pos[t])].pos = pos[t] + n]
  /\ rlog' = Log(rlog, [pos |-> pos[t], val |-> val[t]])
  /\ succ' = Counted(t)
  /\ Return(t)
  /\ spun' = Progress
  /\ UNCHANGED <<n, enq_pos, deq_pos, users, req, elements, prods, cons, life>>
  /\ UNCHANGED <<wlog, rclaim, sendDone, track>>

\* cell.pos.store(pos + *self.n as u32 + 1, Release); return Ok(d)
RecvRelease(t) ==
  /\ pc[t] = "r_release"
  /\ \/ /\ v' = [v EXCEPT ![Idx(pos[t])].pos = WrapU32(pos[t] + n + 1)]
        /\ rlog' = Log(rlog, [pos |-> pos[t], val |-> val[t]])
        /\ succ' = Counted(t)
        /\ Return(t)
     \/ /\ AddOverflows(pos[t], n + 1)
        /\ Panic(t)
        /\ UNCHANGED <<v, rlog, succ>>
  /\ spun' = Progress
  /\ UNCHANGED <<n, enq_pos, deq_pos, users, req, elements, prods, cons, life>>
  /\ UNCHANGED <<wlog, rclaim, sendDone, track>>

\* mutant of RecvReload: the loop goes round without loading the cursor
RecvReloadKeep(t) ==
  /\ pc[t] = "r_reload"
  /\ pc' = [pc EXCEPT ![t] = "r_check"]
  /\ spun' = Retry(t)
  /\ UNCHANGED <<shared, req, succ, elements, prods, cons, life, pos, val>>
  /\ UNCHANGED <<wlog, rclaim, rlog, sendDone, track>>

\* diff > 0: pos = self.deq_pos.load(Relaxed)
RecvReload(t) ==
  /\ pc[t] = "r_reload"
  /\ pos' = [pos EXCEPT ![t] = deq_pos]
  /\ pc' = [pc EXCEPT ![t] = "r_check"]
  /\ spun' = Retry(t)
  /\ UNCHANGED <<shared, req, succ, elements, prods, cons, life, val>>
  /\ UNCHANGED <<wlog, rclaim, rlog, sendDone, track>>

\* ----------------------------------------------------------------- empty
\* q.empty() of main.rs (Sender::empty and Receiver::empty delegate to it):
\* let mut pos = self.deq_pos.load(Relaxed)
EmptyBegin ==
  /\ pc[Main] = "idle"
  /\ pc' = [pc EXCEPT ![Main] = "e_check"]
  /\ pos' = [pos EXCEPT ![Main] = deq_pos]
  /\ UNCHANGED <<shared, req, succ, elements, prods, cons, life, val>>
  /\ UNCHANGED hist

\* mutant of EmptyBranchOf: the sequence is compared with pos, not pos + 1
EmptyBranchOfPos(seq, p) ==
  IF Diff(seq, p) = 0 THEN "false"
  ELSE IF Diff(seq, p) < 0 THEN "true"
  ELSE "reload"

\* the branch empty takes on `diff = seq as i32 - (pos + 1) as i32`
EmptyBranchOf(seq, p) ==
  IF Diff(seq, WrapU32(p + 1)) = 0 THEN "false"
  ELSE IF Diff(seq, WrapU32(p + 1)) < 0 THEN "true"
  ELSE "reload"

EmptyBranch == EmptyBranchOf(v[Idx(pos[Main])].pos, pos[Main])

\* mutant of EmptyCheck: a published value makes it advance the cursor, as recv does
EmptyCheckConsume ==
  /\ pc[Main] = "e_check"
  /\ CASE EmptyBranch = "false" ->
            /\ Return(Main)
            /\ deq_pos' = deq_pos + 1
       [] EmptyBranch = "true" ->
            /\ Return(Main)
            /\ UNCHANGED deq_pos
       [] OTHER ->
            /\ pc' = [pc EXCEPT ![Main] = "e_reload"]
            /\ UNCHANGED <<pos, val, deq_pos>>
  /\ UNCHANGED <<n, v, enq_pos, users, req, succ, elements, prods, cons, life>>
  /\ UNCHANGED hist

\* let seq = cell.pos.load(Acquire); the branch on diff
EmptyCheck ==
  /\ pc[Main] = "e_check"
  /\ \/ CASE EmptyBranch = "false" ->
               Return(Main)
          [] EmptyBranch = "true" ->
               Return(Main)
          [] OTHER ->
               /\ pc' = [pc EXCEPT ![Main] = "e_reload"]
               /\ UNCHANGED <<pos, val>>
     \/ /\ RecvOverflows(Main)
        /\ Panic(Main)
  /\ UNCHANGED <<shared, req, succ, elements, prods, cons, life>>
  /\ UNCHANGED hist

\* diff > 0: pos = self.deq_pos.load(Relaxed)
EmptyReload ==
  /\ pc[Main] = "e_reload"
  /\ pos' = [pos EXCEPT ![Main] = deq_pos]
  /\ pc' = [pc EXCEPT ![Main] = "e_check"]
  /\ UNCHANGED <<shared, req, succ, elements, prods, cons, life, val>>
  /\ UNCHANGED hist

\* ------------------------------------------------------- handle registry
\* mutant of CloneSender: the new handle is not counted
CloneSenderNoCount ==
  /\ rbState \in {"live", "dropping"}
  /\ sHandles > 0
  /\ made.s < MaxHandles
  /\ sHandles' = sHandles + 1
  /\ made' = [made EXCEPT !.s = @ + 1]
  /\ UNCHANGED <<shared, req, succ, elements, prods, cons, locals, hist, rbState, rHandles, fatal>>

\* Clone for Sender: lock senders, assert!(*n > 0), *n += 1, a new Sender
CloneSender ==
  /\ rbState \in {"live", "dropping"}
  /\ sHandles > 0
  /\ made.s < MaxHandles
  /\ IF users.senders > 0
       THEN /\ users' = [users EXCEPT !.senders = @ + 1]
            /\ sHandles' = sHandles + 1
            /\ made' = [made EXCEPT !.s = @ + 1]
            /\ UNCHANGED fatal
       ELSE /\ fatal' = TRUE
            /\ UNCHANGED <<users, sHandles, made>>
  /\ UNCHANGED <<n, v, enq_pos, deq_pos, req, succ, elements, prods, cons, locals, hist, rbState, rHandles>>

\* Clone for Receiver: lock receivers, assert!(*n > 0), *n += 1, a new Receiver
CloneReceiver ==
  /\ rbState \in {"live", "dropping"}
  /\ rHandles > 0
  /\ made.r < MaxHandles
  /\ IF users.receivers > 0
       THEN /\ users' = [users EXCEPT !.receivers = @ + 1]
            /\ rHandles' = rHandles + 1
            /\ made' = [made EXCEPT !.r = @ + 1]
            /\ UNCHANGED fatal
       ELSE /\ fatal' = TRUE
            /\ UNCHANGED <<users, rHandles, made>>
  /\ UNCHANGED <<n, v, enq_pos, deq_pos, req, succ, elements, prods, cons, locals, hist, rbState, sHandles>>

\* mutant of DropSender: the handle goes but the counter is not decremented
DropSenderKeep ==
  /\ rbState \in {"live", "dropping"}
  /\ sHandles > 0
  /\ sHandles' = sHandles - 1
  /\ IF users.senders > 0
       THEN UNCHANGED <<users, fatal>>
       ELSE /\ fatal' = TRUE
            /\ UNCHANGED users
  /\ UNCHANGED <<n, v, enq_pos, deq_pos, req, succ, elements, prods, cons, locals, hist, rbState, rHandles, made>>

\* Drop for Sender: lock senders, assert!(*n > 0), *n -= 1; the handle is gone
DropSender ==
  /\ rbState \in {"live", "dropping"}
  /\ sHandles > 0
  /\ sHandles' = sHandles - 1
  /\ IF users.senders > 0
       THEN /\ users' = [users EXCEPT !.senders = @ - 1]
            /\ UNCHANGED fatal
       ELSE /\ fatal' = TRUE
            /\ UNCHANGED users
  /\ UNCHANGED <<n, v, enq_pos, deq_pos, req, succ, elements, prods, cons, locals, hist, rbState, rHandles, made>>

\* Drop for Receiver: lock receivers, assert!(*n > 0), *n -= 1; the handle is gone
DropReceiver ==
  /\ rbState \in {"live", "dropping"}
  /\ rHandles > 0
  /\ rHandles' = rHandles - 1
  /\ IF users.receivers > 0
       THEN /\ users' = [users EXCEPT !.receivers = @ - 1]
            /\ UNCHANGED fatal
       ELSE /\ fatal' = TRUE
            /\ UNCHANGED users
  /\ UNCHANGED <<n, v, enq_pos, deq_pos, req, succ, elements, prods, cons, locals, hist, rbState, sHandles, made>>

\* Drop for RingBuffer, first block: lock senders, assert!(*n == 0)
DropBufferSenders ==
  /\ rbState = "live"
  /\ rbState' = IF users.senders = 0 THEN "dropping" ELSE "panicked"
  /\ UNCHANGED <<shared, req, succ, elements, prods, cons, locals, hist, sHandles, rHandles, made, fatal>>

\* Drop for RingBuffer, second block: lock receivers, assert!(*n == 0); the
\* box is freed after it
DropBufferReceivers ==
  /\ rbState = "dropping"
  /\ rbState' = IF users.receivers = 0 THEN "dropped" ELSE "panicked"
  /\ UNCHANGED <<shared, req, succ, elements, prods, cons, locals, hist, sHandles, rHandles, made, fatal>>

\* A clone through a handle whose RingBuffer is gone reads freed memory
\* (the raw *mut RingBuffer of the handle dangles): undefined behaviour, which
\* either goes on as if the counter were still there or ends the thread.
CloneFreed ==
  /\ rbState \in {"dropped", "panicked"}
  /\ \/ /\ sHandles > 0
        /\ made.s < MaxHandles
        /\ \/ /\ sHandles' = sHandles + 1
              /\ made' = [made EXCEPT !.s = @ + 1]
              /\ UNCHANGED fatal
           \/ /\ fatal' = TRUE
              /\ UNCHANGED <<sHandles, made>>
        /\ UNCHANGED rHandles
     \/ /\ rHandles > 0
        /\ made.r < MaxHandles
        /\ \/ /\ rHandles' = rHandles + 1
              /\ made' = [made EXCEPT !.r = @ + 1]
              /\ UNCHANGED fatal
           \/ /\ fatal' = TRUE
              /\ UNCHANGED <<rHandles, made>>
        /\ UNCHANGED sHandles
  /\ UNCHANGED <<shared, req, succ, elements, prods, cons, locals, hist, rbState>>

\* A handle dropped after its RingBuffer is gone: the same dangling access
DropFreed ==
  /\ rbState \in {"dropped", "panicked"}
  /\ \/ /\ sHandles > 0
        /\ sHandles' = sHandles - 1
        /\ UNCHANGED rHandles
     \/ /\ rHandles > 0
        /\ rHandles' = rHandles - 1
        /\ UNCHANGED sHandles
  /\ \/ UNCHANGED fatal
     \/ fatal' = TRUE
  /\ UNCHANGED <<shared, req, succ, elements, prods, cons, locals, hist, rbState, made>>

\* RingBuffer::new: the box and the two original handles, no thread yet
InitLife ==
  /\ \E c \in 1..MaxCap : InitBuffer(c)
  /\ users = UsersNew
  /\ prods = {}
  /\ cons = {}
  /\ sHandles = 1
  /\ rHandles = 1
  /\ made = [s |-> 1, r |-> 1]
  /\ rbState = "live"
  /\ fatal = FALSE
  /\ track = {"claims"}
  /\ NoDriver
  /\ InitLocals
  /\ InitHist

NextLife ==
  \/ CloneSender
  \/ CloneReceiver
  \/ DropSender
  \/ DropReceiver
  \/ DropBufferSenders
  \/ DropBufferReceivers
  \/ CloneFreed
  \/ DropFreed

SpecLife == InitLife /\ [][NextLife]_vars

\* --------------------------------------------------------- specification
Next ==
  \/ \E t \in ProdIds, d \in 1..(MaxSends + 1) : SendBegin(t, d)
  \/ \E t \in ProdIds : SendCheck(t)
  \/ \E t \in ProdIds : SendCasOk(t)
  \/ \E t \in ProdIds : SendCasFail(t)
  \/ \E t \in ProdIds : SendCasSpurious(t)
  \/ \E t \in ProdIds : SendWrite(t)
  \/ \E t \in ProdIds : SendPublish(t)
  \/ \E t \in ProdIds : SendReload(t)
  \/ \E t \in ConsIds : RecvBegin(t)
  \/ \E t \in ConsIds : RecvCheck(t)
  \/ \E t \in ConsIds : RecvCasOk(t)
  \/ \E t \in ConsIds : RecvCasFail(t)
  \/ \E t \in ConsIds : RecvCasSpurious(t)
  \/ \E t \in ConsIds : RecvRead(t)
  \/ \E t \in ConsIds : RecvRelease(t)
  \/ \E t \in ConsIds : RecvReload(t)
  \/ EmptyBegin
  \/ EmptyCheck
  \/ EmptyReload

Spec == Init /\ [][Next]_vars

\* The same program, with the history of the retries kept
InitRetry == InitThreads /\ NoDriver /\ track = {"claims", "retries"}

SpecRetry == InitRetry /\ [][Next]_vars

\* ---------------------------------------------------------------- driver
\* main.rs, the sender thread: loop { if s.send(i as Token) { succ += 1 } ...;
\* if succ == ELEMENTS { break } }.  The thread calls send while it has fewer
\* than ELEMENTS successes; i is the index of the thread.
DriverSendBegin(t) ==
  /\ t \in prods
  /\ t \in DOMAIN succ
  /\ succ[t] < elements
  /\ pc[t] = "idle"
  /\ pc' = [pc EXCEPT ![t] = "s_check"]
  /\ pos' = [pos EXCEPT ![t] = enq_pos]
  /\ val' = [val EXCEPT ![t] = t - 1]
  /\ UNCHANGED <<shared, req, succ, elements, prods, cons, life>>
  /\ UNCHANGED hist

\* main.rs, the receiver thread: loop { if let Ok(_) = r.recv() { succ += 1 }
\* else { sleep }; if succ == ELEMENTS { break } }
DriverRecvBegin(t) ==
  /\ t \in DOMAIN succ
  /\ succ[t] < elements
  /\ RecvBegin(t)

\* the thread has left its loop
Finished(t) == t \in DOMAIN succ /\ pc[t] = "idle" /\ succ[t] = elements

\* main.rs: one buffer, as many sender threads as receiver threads, each with
\* its clone of the handle, and ELEMENTS large enough for every thread to go
\* round its loop again after a success; no history is kept
InitDriver ==
  /\ \E c \in 1..MaxCap : InitBuffer(c)
  /\ \E np \in 1..(MaxThreads - 1), k \in 2..MaxTotal :
       /\ np * k <= MaxTotal
       /\ InitWorkers(np, np)
       /\ succ = [t \in (1..np) \cup {100 + i : i \in 1..np} |-> 0]
       /\ elements = k
  /\ track = {}

ProdStep(t) ==
  \/ DriverSendBegin(t)
  \/ SendCheck(t)
  \/ SendCasOk(t)
  \/ SendCasFail(t)
  \/ SendCasSpurious(t)
  \/ SendWrite(t)
  \/ SendPublish(t)
  \/ SendReload(t)

ConsStep(t) ==
  \/ DriverRecvBegin(t)
  \/ RecvCheck(t)
  \/ RecvCasOk(t)
  \/ RecvCasFail(t)
  \/ RecvCasSpurious(t)
  \/ RecvRead(t)
  \/ RecvRelease(t)
  \/ RecvReload(t)

NextDriver ==
  \/ \E t \in ProdIds : DriverSendBegin(t)
  \/ \E t \in ProdIds : SendCheck(t)
  \/ \E t \in ProdIds : SendCasOk(t)
  \/ \E t \in ProdIds : SendCasFail(t)
  \/ \E t \in ProdIds : SendCasSpurious(t)
  \/ \E t \in ProdIds : SendWrite(t)
  \/ \E t \in ProdIds : SendPublish(t)
  \/ \E t \in ProdIds : SendReload(t)
  \/ \E t \in ConsIds : DriverRecvBegin(t)
  \/ \E t \in ConsIds : RecvCheck(t)
  \/ \E t \in ConsIds : RecvCasOk(t)
  \/ \E t \in ConsIds : RecvCasFail(t)
  \/ \E t \in ConsIds : RecvCasSpurious(t)
  \/ \E t \in ConsIds : RecvRead(t)
  \/ \E t \in ConsIds : RecvRelease(t)
  \/ \E t \in ConsIds : RecvReload(t)

\* Every thread that can take a step eventually takes one (the operating
\* system schedules every runnable thread), and a compare_exchange_weak that
\* finds the expected value again and again does not fail every time.
FairDriver ==
  /\ \A t \in ProdIds : WF_vars(ProdStep(t)) /\ SF_vars(SendCasOk(t))
  /\ \A t \in ConsIds : WF_vars(ConsStep(t)) /\ SF_vars(RecvCasOk(t))

SpecDriver == InitDriver /\ [][NextDriver]_vars /\ FairDriver

\* ------------------------------------------------------------ wraparound
\* The position SpecWrap starts at: WrapLead below the width of the counters
WrapStart == Modulus - WrapLead

\* The sequence slot i carries once every position below s has been sent and
\* received: the first position from s on that falls on slot i (the send of
\* that position minus N stored it plus one, its recv that plus N - 1).
SeqAt(i, s, mask) ==
  WrapU32(s + ((i + (mask + 1) - (s % (mask + 1))) % (mask + 1)))

\* The buffer after WrapStart sends and WrapStart recvs, with nothing in
\* flight; the payloads left in the cells are of no account.
InitWrapBuffer(c) ==
  /\ c > 0
  /\ req = c
  /\ n = NewMask(c)
  /\ v = [i \in 0..NewMask(c) |->
            [pos |-> SeqAt(i, WrapStart, NewMask(c)), data |-> Default]]
  /\ enq_pos = WrapStart
  /\ deq_pos = WrapStart

InitWrap ==
  /\ \E c \in 1..MaxCap : InitWrapBuffer(c)
  /\ \E np \in 1..(MaxThreads - 1), nc \in 1..(MaxThreads - 1) :
       /\ np + nc <= MaxThreads
       /\ InitWorkers(np, nc)
  /\ NoDriver
  /\ track = {"claims"}

SpecWrap == InitWrap /\ [][Next]_vars

\* ================================================================ claims
Workers == prods \cup cons
WorkersIdle == \A t \in Workers : pc[t] = "idle"
ConsumersIdle == \A t \in cons : pc[t] = "idle"

\* positions claimed by a send, claimed by a recv, released by a recv
WPos == {wlog[i].pos : i \in 1..Len(wlog)}
RPos == {rclaim[i] : i \in 1..Len(rclaim)}
Released == {rlog[i].pos : i \in 1..Len(rlog)}

\* slot i holds a value of a send whose slot no recv has released yet
Occupied(i) == \E p \in WPos \ Released : Idx(p) = i

RECURSIVE ValsOf(_)
ValsOf(log) == IF log = <<>> THEN <<>> ELSE <<Head(log).val>> \o ValsOf(Tail(log))

IsPrefix(a, b) == Len(a) <= Len(b) /\ \A i \in 1..Len(a) : a[i] = b[i]

\* the value the send that claimed position p was called with
SentAt(p) == {wlog[i].val : i \in {j \in 1..Len(wlog) : wlog[j].pos = p}}

\* C1: no two successful sends claim the same absolute write position and no
\* two successful recvs claim the same absolute read position, whatever the
\* number of producers and consumers and the interleaving.
C1_UniqueClaims ==
  /\ \A i, j \in 1..Len(wlog) : i # j => wlog[i].pos # wlog[j].pos
  /\ \A i, j \in 1..Len(rclaim) : i # j => rclaim[i] # rclaim[j]

\* two threads have raced for one position, after both kinds of claim have
\* been made: one claimed it, the other still holds the position it lost
C1_Witness ==
  /\ Len(wlog) > 1
  /\ Len(rclaim) > 0
  /\ \/ \E t, u \in prods : t # u /\ pc[t] = "s_write" /\ pc[u] = "s_cas" /\ pos[u] = pos[t]
     \/ \E t, u \in cons : t # u /\ pc[t] = "r_read" /\ pc[u] = "r_cas" /\ pos[u] = pos[t]

\* C2: the recv that claims position p returns exactly the value of the send
\* that claimed p: never the default, never the value of an earlier lap of the
\* slot, never the content of a slot that is claimed but not yet published.
C2_RoundTrip ==
  /\ \A i \in 1..Len(rlog) :
       /\ SentAt(rlog[i].pos) = {rlog[i].val}
       /\ rlog[i].val # Default
  /\ \A t \in cons :
       /\ pc[t] \in {"r_read", "r_release"} => pos[t] \in sendDone
       /\ pc[t] = "r_release" => SentAt(pos[t]) = {val[t]}

\* a value of the second lap of a slot has been received, with several
\* producers at work
C2_Witness ==
  /\ Cardinality(prods) > 1
  /\ \E i \in 1..Len(rlog) : rlog[i].pos >= N

\* C3: with one producer and one consumer the values received are, in order, a
\* prefix of the values sent, and an empty() that reads the slot sequence once
\* every sent value has been received does not return false (it returns true
\* when the position it holds is the current dequeue cursor).
C3_SpscOrder ==
  (Cardinality(prods) = 1 /\ Cardinality(cons) = 1) =>
    /\ IsPrefix(ValsOf(rlog), ValsOf(wlog))
    /\ (pc[Main] = "e_check" /\ WPos = Released) =>
         /\ EmptyBranch # "false"
         /\ pos[Main] = deq_pos => EmptyBranch = "true"

\* one producer, one consumer: three values sent and received in order, and
\* empty() is reading the slot sequence
C3_Witness ==
  /\ Cardinality(prods) = 1
  /\ Cardinality(cons) = 1
  /\ Len(rlog) = MaxSends
  /\ WPos = Released
  /\ pc[Main] = "e_check"
  /\ EmptyBranch = "true"

\* C4: N = nextPowerOfTwo(c + 1); with one producer and no recv so far, a send
\* that reads the slot sequence goes on to claim while fewer than N sends have
\* claimed and returns false once N have; after N sends and one completed recv
\* (none in progress) the next send goes on to claim again.
C4_Fill ==
  /\ N = NextPowerOfTwo(req + 1)
  /\ \A t \in prods :
       (Cardinality(prods) = 1 /\ pc[t] = "s_check" /\ ConsumersIdle) =>
         /\ rclaim = <<>> =>
              SendBranch(t) = IF Len(wlog) < N THEN "cas" ELSE "full"
         /\ (Len(wlog) = N /\ Len(rlog) = 1 /\ Len(rclaim) = 1) =>
              SendBranch(t) = "cas"

\* the single producer has filled the N slots, one recv has completed and the
\* next send is reading the slot sequence
C4_Witness ==
  /\ Cardinality(prods) = 1
  /\ ConsumersIdle
  /\ Len(wlog) = N
  /\ Len(rlog) = 1
  /\ \E t \in prods : pc[t] = "s_check"

\* C5 as stated: when send reads the slot sequence that makes it return false,
\* every one of the N slots holds an enqueued value whose slot is not released.
C5_FullMeansAllSlotsHeld ==
  \A t \in prods :
    (pc[t] = "s_check" /\ SendBranch(t) = "full") => \A i \in 0..n : Occupied(i)

\* C5 amended: when send reads the slot sequence that makes it return false,
\* its position is the current enqueue cursor and the slot of that position is
\* still held by position pos - N (claimed by a send, not released by the recv
\* of that position); with a single consumer all N slots are so held.
C5_FullMeansSlotHeld ==
  \A t \in prods :
    (pc[t] = "s_check" /\ SendBranch(t) = "full") =>
      /\ enq_pos = pos[t]
      /\ pos[t] >= N
      /\ (pos[t] - N) \in WPos \ Released
      /\ Occupied(Idx(pos[t]))
      /\ Cardinality(cons) = 1 => \A i \in 0..n : Occupied(i)

\* a send is about to return false while another slot has been released
C5_Witness ==
  \E t \in prods :
    /\ pc[t] = "s_check"
    /\ SendBranch(t) = "full"
    /\ \E i \in 0..n : ~Occupied(i)

C7_QuiescentEmpty ==
  (WorkersIdle /\ pc[Main] = "e_check") =>
    /\ EmptyBranch = "true" => Cardinality(sendDone) = Len(rlog)
    /\ EmptyBranch = "false" => Cardinality(sendDone) # Len(rlog)
    /\ pos[Main] = deq_pos => EmptyBranch # "reload"

\* several producers and a consumer have finished the same number of
\* operations and empty() is about to return true
C7_Witness ==
  /\ Cardinality(prods) > 1
  /\ WorkersIdle
  /\ pc[Main] = "e_check"
  /\ Len(rlog) = MaxSends
  /\ Cardinality(sendDone) = Len(rlog)
  /\ EmptyBranch = "true"

\* empty() returns b in this step
EmptyReturns(b) == pc[Main] = "e_check" /\ pc'[Main] = "idle" /\ EmptyBranch = b

\* C8: no step of empty() changes a cursor, a slot sequence, a payload or a
\* registry counter; when it returns it returns true if and only if the slot
\* of the position it last read does not carry sequence position + 1, which is
\* exactly when a recv reading the same slot at that position would fail.
C8_EmptyReadOnly ==
  [][pc'[Main] # pc[Main] =>
       /\ UNCHANGED <<n, v, enq_pos, deq_pos, users>>
       /\ (pc[Main] = "e_check" /\ pc'[Main] = "idle") =>
            /\ EmptyReturns("true") <=> v[Idx(pos[Main])].pos # pos[Main] + 1
            /\ EmptyReturns("true") <=>
                 RecvBranchOf(v[Idx(pos[Main])].pos, pos[Main]) = "empty"
            /\ EmptyReturns("false") <=>
                 RecvBranchOf(v[Idx(pos[Main])].pos, pos[Main]) = "cas"]_vars

\* empty() is reading the slot sequence while values are published and a
\* producer and a consumer are in the middle of their operations
C8_Witness ==
  /\ pc[Main] = "e_check"
  /\ EmptyBranch = "false"
  /\ \E t \in prods : pc[t] = "s_publish"
  /\ \E t \in cons : pc[t] = "r_release"

\* C9: whenever a send or recv goes round its retry loop (its cursor CAS found
\* another value, or it saw diff > 0), another operation has advanced since
\* its previous iteration: no thread is about to go round a second time with
\* no operation having advanced since its first.
C9_RetryMeansProgress ==
  \A t \in Workers :
    /\ (pc[t] = "s_cas" /\ enq_pos # pos[t]) => ~spun[t]
    /\ (pc[t] = "r_cas" /\ deq_pos # pos[t]) => ~spun[t]
    /\ pc[t] \in {"s_reload", "r_reload"} => ~spun[t]

\* C10: the drop of the RingBuffer panics at its first assert if and only if
\* the senders counter is non-zero when it examines it, at its second if and
\* only if the receivers counter is non-zero when it examines it; it completes
\* only with both counters zero and no Sender or Receiver alive.
C10_DropBuffer ==
  [][/\ (rbState = "live" /\ rbState' # "live") =>
          (rbState' = "panicked" <=> users.senders # 0)
     /\ (rbState = "dropping" /\ rbState' # "dropping") =>
          (rbState' = "panicked" <=> users.receivers # 0)
     /\ rbState' = "dropped" =>
          /\ users'.senders = 0 /\ users'.receivers = 0
          /\ sHandles' = 0 /\ rHandles' = 0]_vars

\* the RingBuffer was dropped normally after clones had been made and dropped
C10_Witness ==
  /\ rbState = "dropped"
  /\ made.s > 1
  /\ made.r > 1

\* C11: once the RingBuffer is gone (its drop has run, to completion or into
\* its panic), no clone through a remaining Sender or Receiver silently yields
\* a new handle: the count of handles ever made stays as it is.
C11_CloneAfterDropFatal ==
  [][(rbState \in {"dropped", "panicked"}) => (made' = made)]_vars

\* the steps of a send that has not claimed a position (all the steps of a
\* send that returns false), and of a recv that has not claimed one
SendUnclaimedStep(t) ==
  /\ pc'[t] # pc[t]
  /\ pc[t] \in {"idle", "s_check", "s_cas", "s_reload"}
  /\ pc'[t] \in {"idle", "s_check", "s_cas", "s_reload"}

RecvUnclaimedStep(t) ==
  /\ pc'[t] # pc[t]
  /\ pc[t] \in {"idle", "r_check", "r_cas", "r_reload"}
  /\ pc'[t] \in {"idle", "r_check", "r_cas", "r_reload"}

\* C12: a send that returns false and a recv that returns failure change no
\* cursor, no slot sequence and no slot payload in any of their steps, index
\* the slot array within its length and set off no fatal condition.
C12_FailureLeavesState ==
  [][/\ \A t \in prods : SendUnclaimedStep(t) =>
          /\ UNCHANGED <<enq_pos, deq_pos, v>>
          /\ Idx(pos'[t]) \in DOMAIN v
          /\ ~fatal'
     /\ \A t \in cons : RecvUnclaimedStep(t) =>
          /\ UNCHANGED <<enq_pos, deq_pos, v>>
          /\ Idx(pos'[t]) \in DOMAIN v
          /\ ~fatal']_vars

\* a send is about to return false at a slot that holds an unreceived value
\* while a recv is about to fail at a position that is claimed but unpublished
C12_Witness ==
  /\ \E t \in prods : pc[t] = "s_check" /\ SendBranch(t) = "full"
  /\ \E t \in cons : pc[t] = "r_check" /\ RecvBranch(t) = "empty"
  /\ sendDone # {}

\* x is the least power of two that is at least y
LeastPow2AtLeast(x, y) ==
  /\ \E k \in 0..8 : x = 2^k
  /\ x >= y
  /\ x = 1 \/ x \div 2 < y

C14_ReloadAfterFailedCas ==
  [][\A t \in Workers :
       /\ (pc[t] = "s_cas" /\ pc'[t] = "s_check") => pos'[t] = enq_pos
       /\ (pc[t] = "r_cas" /\ pc'[t] = "r_check") => pos'[t] = deq_pos]_vars

\* thread t is between its successful cursor CAS and its sequence store, on slot i
Holds(t, i) ==
  /\ pc[t] \in {"s_write", "s_publish", "r_read", "r_release"}
  /\ Idx(pos[t]) = i

\* C15: at most one thread at a time is between its successful cursor CAS and
\* its sequence store on a given slot, so no payload is written by two sends,
\* read by two recvs, or written by a send while a recv is reading it.
C15_SlotExclusive ==
  \A i \in 0..n : \A t, u \in Workers : (Holds(t, i) /\ Holds(u, i)) => t = u

\* a send holds a slot on the slot's second lap while a recv holds a slot too
C15_Witness ==
  \E t \in prods, u \in cons :
    /\ pc[t] \in {"s_write", "s_publish"}
    /\ pos[t] >= N
    /\ pc[u] \in {"r_read", "r_release"}

\* C16: in the step in which a send's CAS moves enq_pos from p, the slot of p
\* carries sequence p; in the step in which a recv's CAS moves deq_pos from p,
\* it carries p + 1; a slot's sequence changes only in the store of the send
\* that claimed p, from p to p + 1, and in the store of the recv that claimed
\* p, from p + 1 to p + N.
C16_ClaimAtInstant ==
  [][/\ (enq_pos' # enq_pos) => v[Idx(enq_pos)].pos = enq_pos
     /\ (deq_pos' # deq_pos) => v[Idx(deq_pos)].pos = deq_pos + 1
     /\ \A i \in 0..n : (v'[i].pos # v[i].pos) =>
          \/ \E t \in prods :
               /\ pc[t] = "s_publish" /\ pc'[t] = "idle" /\ Idx(pos[t]) = i
               /\ v[i].pos = pos[t]
               /\ v'[i].pos = pos[t] + 1
          \/ \E t \in cons :
               /\ pc[t] = "r_release" /\ pc'[t] = "idle" /\ Idx(pos[t]) = i
               /\ v[i].pos = pos[t] + 1
               /\ v'[i].pos = pos[t] + N]_vars

\* a slot has gone through both stores twice: i, i + 1, i + N, i + N + 1, i + 2N
C16_Witness ==
  \E i \in 0..n : v[i].pos = i + 2 * N

\* C18: from {senders: 1, receivers: 1} at creation and until the drop of the
\* RingBuffer has ended, the senders counter is the number of Sender handles
\* in existence and the receivers counter the number of Receiver handles,
\* whatever the order of the clones and drops; no counter goes below zero and
\* no `> 0` assert of a clone or a drop fires.
C18_RegistryAccurate ==
  rbState \in {"live", "dropping"} =>
    /\ users.senders = sHandles
    /\ users.receivers = rHandles
    /\ users.senders >= 0 /\ users.receivers >= 0
    /\ ~fatal

\* every Sender the bound allows has been made and dropped again while cloned
\* Receivers are alive and the RingBuffer is still there
C18_Witness ==
  /\ rbState = "live"
  /\ made.s = MaxHandles
  /\ sHandles = 0
  /\ rHandles > 1

\* C19: 0 <= enq_pos - deq_pos <= N in every state; enq_pos changes only by
\* +1 and only in the successful CAS of a send, deq_pos only by +1 and only in
\* the successful CAS of a recv.
C19_BoundedOccupancy ==
  /\ [](0 <= enq_pos - deq_pos /\ enq_pos - deq_pos <= N)
  /\ [][/\ (enq_pos' # enq_pos) =>
             /\ enq_pos' = enq_pos + 1
             /\ \E t \in prods :
                  pc[t] = "s_cas" /\ pc'[t] = "s_write" /\ pos[t] = enq_pos
        /\ (deq_pos' # deq_pos) =>
             /\ deq_pos' = deq_pos + 1
             /\ \E t \in cons :
                  pc[t] = "r_cas" /\ pc'[t] = "r_read" /\ pos[t] = deq_pos]_vars

\* N positions are outstanding after the dequeue cursor has moved
C19_Witness ==
  /\ enq_pos - deq_pos = N
  /\ deq_pos > 0


\* a counter value of SpecWrap as the position it stands for: the values at
\* the top of the range are positions before the wrap, those at the bottom
\* positions after it
Unwrap(x) == IF x < Half THEN x + Modulus ELSE x

\* the branches taken on positions that do not wrap
ExactSendBranch(seq, p) ==
  IF seq = p THEN "cas" ELSE IF seq < p THEN "full" ELSE "reload"

ExactRecvBranch(seq, p) ==
  IF seq = p + 1 THEN "cas" ELSE IF seq < p + 1 THEN "empty" ELSE "reload"

ExactEmptyBranch(seq, p) ==
  IF seq = p + 1 THEN "false" ELSE IF seq < p + 1 THEN "true" ELSE "reload"

\* C17: across the wrap of the counters every send, recv and empty goes the
\* way it goes on positions that do not wrap: no operation stops at the wrap,
\* each one takes the branch (claim, full / empty, reload) and the slot that
\* the unwrapped positions give, and the cursors count on: enq_pos stands for
\* the start plus the sends claimed, deq_pos for the start plus the recvs
\* claimed.
C17_WrapSameOutcome ==
  /\ \A t \in Threads : pc[t] # "panic"
  /\ Unwrap(enq_pos) = WrapStart + Len(wlog)
  /\ Unwrap(deq_pos) = WrapStart + Len(rclaim)
  /\ \A t \in Threads : InOp(t) => Idx(pos[t]) = Unwrap(pos[t]) % N
  /\ \A t \in prods : pc[t] = "s_check" =>
       SendBranch(t) = ExactSendBranch(Unwrap(v[Idx(pos[t])].pos), Unwrap(pos[t]))
  /\ \A t \in cons : pc[t] = "r_check" =>
       RecvBranch(t) = ExactRecvBranch(Unwrap(v[Idx(pos[t])].pos), Unwrap(pos[t]))
  /\ pc[Main] = "e_check" =>
       EmptyBranch = ExactEmptyBranch(Unwrap(v[Idx(pos[Main])].pos), Unwrap(pos[Main]))


====
